---- MODULE Spec2Model ----
(***************************************************************************)
(* Agent-based surface simulation of A4 (agent_builder.py and              *)
(* agent_simulator.py).                                                    *)
(*                                                                         *)
(* Numbers.  Floats are fixed-point integers.  One length unit is 0.05,    *)
(* one curvature unit is 0.1, one probability unit is 1/RandRes.  Products *)
(* and quotients truncate toward zero.  The tolerances 1e-4, 1e-6 and 1e-9 *)
(* lie below the resolution: "length > tolerance" is "length # 0".         *)
(* A distance is kept as its square, which orders distances exactly.       *)
(*                                                                         *)
(* Two runs of the program are carried side by side (runs[1], runs[2]):    *)
(* every handler is applied to both with the same inputs.  pre[r] is a     *)
(* history variable: run r as it was when the last pass over the agents    *)
(* began (after seeding and building).                                     *)
(***************************************************************************)
EXTENDS Integers, Sequences, FiniteSets, TLC

VARIABLES cfg, runs, pre, last, steps

vars == <<cfg, runs, pre, last, steps>>

\* Python's None.  A value that may be None is a tuple: <<>> for None, and a
\* point, a parameter pair, <<n>> for a number n or <<name>> for a surface otherwise.
None == <<>>

\* ------------------------------------------------------------- bounds

MaxSteps == 3

MaxPop == 4

Runs == {1, 2}

\* ------------------------------------------------------------- arithmetic

Abs(x) == IF x < 0 THEN -x ELSE x

Max(a, b) == IF a >= b THEN a ELSE b

\* Quotient truncated toward zero (d > 0).
TruncDiv(n, d) == IF n >= 0 THEN n \div d ELSE -((-n) \div d)

\* Least k with k * k >= n.
RECURSIVE CeilSqrtFrom(_, _)
CeilSqrtFrom(n, k) == IF k * k >= n THEN k ELSE CeilSqrtFrom(n, k + 1)

CeilSqrt(n) == CeilSqrtFrom(n, 0)

\* Greatest k with k * k <= n.
FloorSqrt(n) == LET c == CeilSqrt(n) IN IF c * c = n THEN c ELSE c - 1

\* ------------------------------------------------------------- vectors

Zero3 == <<0, 0, 0>>

VectorAdd(a, b) == <<a[1] + b[1], a[2] + b[2], a[3] + b[3]>>

\* rs.VectorCreate(to_point, from_point) = to_point - from_point
VectorCreate(to, from) == <<to[1] - from[1], to[2] - from[2], to[3] - from[3]>>

Length2(v) == v[1] * v[1] + v[2] * v[2] + v[3] * v[3]

\* rs.Distance, as the squared distance.
Distance2(a, b) == Length2(VectorCreate(a, b))

\* v * (num / den)
VectorScaleBy(v, num, den) ==
    <<TruncDiv(v[1] * num, den), TruncDiv(v[2] * num, den), TruncDiv(v[3] * num, den)>>

\* rs.VectorScale(rs.VectorUnitize(v), w) for v # 0: direction of v, length at most |w|.
UnitizeScale(v, w) == VectorScaleBy(v, w, CeilSqrt(Length2(v)))

\* ------------------------------------------------------------- random

\* The generator of module random: a linear congruential stream of RngMod states.
RngMod == 64

\* random.random() takes RandRes values k / RandRes, k in 0 .. RandRes-1.
RandRes == 4

\* random.seed(seed)
SeedState(seed) == seed % RngMod

RngNext(s) == (13 * s + 7) % RngMod

\* The draw random.random() returns when it leaves the generator in state s.
RngValue(s) == s \div (RngMod \div RandRes)

\* a + (b - a) * random(), rounded to the grid; x is the value random() drew.
Uniform(a, b, x) == a + ((b - a) * x * 2 + RandRes) \div (2 * RandRes)

\* seed_everything with the seeding left out.
seed_everything_Unseeded(run, seed) == run

\* seed_everything(seed)
seed_everything(run, seed) ==
    IF seed # None THEN [run EXCEPT !.rng = SeedState(seed[1])] ELSE run

\* The seed of the module-level call seed_everything(42).
ModuleSeed == 42

\* ------------------------------------------------------------- surface (Rhino)

\* What the start_surface input may be: a plane, a ridge along v at u = RidgeU, a
\* plane that cannot be evaluated along its edge u = TornU, an object that is no
\* surface, or nothing.  A surface's parameter domain is 0 .. G in u and in v.
Flat == <<"flat">>

Ridge == <<"ridge">>

Torn == <<"torn">>

NotSurface == <<"curve">>

Surfaces == {Flat, Ridge, Torn, NotSurface, None}

TornU == 0

G == 3

RidgeU == 2

RidgeHeight == 3

\* rs.IsSurface
IsSurface(surface) == surface \in {Flat, Ridge, Torn}

Height(surface, u, v) == IF surface = Ridge /\ u = RidgeU THEN RidgeHeight ELSE 0

InDomain(u, v) == u \in 0..G /\ v \in 0..G

\* rs.EvaluateSurface: the point at (u, v); None outside the domain and where the
\* surface cannot be evaluated.
EvaluateSurface(surface, u, v) ==
    IF InDomain(u, v) /\ ~(surface = Torn /\ u = TornU)
    THEN <<u, v, Height(surface, u, v)>>
    ELSE None

Clamp(x) == IF x < 0 THEN 0 ELSE IF x > G THEN G ELSE x

\* rs.SurfaceClosestPoint: the parameter of the closest point, which is a point of
\* the surface; None when the projection fails (on the ridge surface: for points
\* beyond its far edges).
SurfaceClosestPoint(surface, point) ==
    IF surface = Ridge /\ (point[1] > G \/ point[2] > G)
    THEN None
    ELSE IF surface = Torn
    THEN <<Max(Clamp(point[1]), TornU + 1), Clamp(point[2])>>
    ELSE <<Clamp(point[1]), Clamp(point[2])>>

\* rs.SurfaceCurvature, its entries k1, k2 and dir1; None where it is undefined.
SurfaceCurvature(surface, uv) ==
    IF surface # Ridge THEN [k1 |-> 0, k2 |-> 0, dir1 |-> <<1, 0, 0>>]
    ELSE IF uv[1] = RidgeU THEN [k1 |-> 2, k2 |-> 0, dir1 |-> <<0, 1, 0>>]
    ELSE IF Abs(uv[1] - RidgeU) = 1 THEN [k1 |-> -2, k2 |-> 0, dir1 |-> <<0, 1, 0>>]
    ELSE None

\* ------------------------------------------------------------- helper functions

\* get_uv(surface, point)
get_uv(surface, point) ==
    IF surface = None \/ point = None THEN None ELSE SurfaceClosestPoint(surface, point)

\* sample_curvature(surface, uv): <<mean curvature, principal direction>>
sample_curvature(surface, uv) ==
    IF surface = None \/ uv = None THEN <<0, Zero3>>
    ELSE LET curv == SurfaceCurvature(surface, uv) IN
         IF curv = None THEN <<0, Zero3>>
         ELSE <<TruncDiv(curv.k1 + curv.k2, 2), curv.dir1>>

\* The finite-difference step of sample_slope, in parameter units.
FDStep == 1

\* sample_slope(surface, uv): <<slope vector, slope magnitude>>
sample_slope(surface, uv) ==
    IF surface = None \/ uv = None THEN <<Zero3, 0>>
    ELSE LET p0 == EvaluateSurface(surface, uv[1], uv[2])
             pu == EvaluateSurface(surface, uv[1] + FDStep, uv[2])
             pv == EvaluateSurface(surface, uv[1], uv[2] + FDStep)
         IN  IF p0 = None \/ pu = None \/ pv = None THEN <<Zero3, 0>>
             ELSE LET slope_vec == VectorAdd(VectorCreate(pu, p0), VectorCreate(pv, p0))
                  IN  <<slope_vec, FloorSqrt(Length2(slope_vec))>>

\* ------------------------------------------------------------- Agent

\* Agent.__init__(position, velocity); the agent's id is its index in run.objs.
NewAgent(position, velocity) ==
    [position |-> position, velocity |-> velocity, age |-> 0, is_alive |-> TRUE,
     path |-> <<position>>, uv |-> None, curvature_mean |-> 0,
     curvature_dir |-> Zero3, slope_vector |-> Zero3, slope_magnitude |-> 0,
     neighbors |-> <<>>]

\* d <= vision_radius, for the squared distance d2.
WithinRadius(d2, radius) == radius >= 0 /\ d2 <= radius * radius

\* The loop of Agent.sense without the test other.id == self.id.
SenseNeighbors_WithSelf(objs, id, agents, vision_radius) ==
    LET position == objs[id].position
        near == SelectSeq(agents, LAMBDA other:
                    WithinRadius(Distance2(position, objs[other].position),
                                 vision_radius[1]))
    IN  [i \in 1..Len(near) |-> <<near[i], Distance2(position, objs[near[i]].position)>>]

\* The loop of Agent.sense over agents: every other agent within vision_radius,
\* in list order, with its distance.
SenseNeighbors(objs, id, agents, vision_radius) ==
    LET position == objs[id].position
        near == SelectSeq(agents, LAMBDA other:
                    other # id /\ WithinRadius(Distance2(position, objs[other].position),
                                               vision_radius[1]))
    IN  [i \in 1..Len(near) |-> <<near[i], Distance2(position, objs[near[i]].position)>>]

\* Agent.sense clearing the cached geometry when the projection fails.
Sense_ClearOnFailure(run, id, agents, surface, vision_radius) ==
    LET a  == run.objs[id]
        uv == get_uv(surface, a.position)
        c  == sample_curvature(surface, uv)
        s  == sample_slope(surface, uv)
        a1 == [a EXCEPT !.uv = uv, !.curvature_mean = c[1], !.curvature_dir = c[2],
                        !.slope_vector = s[1], !.slope_magnitude = s[2]]
        a2 == [a1 EXCEPT !.neighbors =
                  IF vision_radius = None THEN <<>>
                  ELSE SenseNeighbors(run.objs, id, agents, vision_radius)]
    IN  [run EXCEPT !.objs[id] = a2]

\* Agent.sense(agents, surface, vision_radius)
Sense(run, id, agents, surface, vision_radius) ==
    LET a  == run.objs[id]
        uv == get_uv(surface, a.position)
        c  == sample_curvature(surface, uv)
        s  == sample_slope(surface, uv)
        a1 == IF uv # None
              THEN [a EXCEPT !.uv = uv, !.curvature_mean = c[1], !.curvature_dir = c[2],
                             !.slope_vector = s[1], !.slope_magnitude = s[2]]
              ELSE [a EXCEPT !.uv = uv]
        a2 == [a1 EXCEPT !.neighbors =
                  IF vision_radius = None THEN <<>>
                  ELSE SenseNeighbors(run.objs, id, agents, vision_radius)]
    IN  [run EXCEPT !.objs[id] = a2]

\* The least slope resistance, 0.2 = 1 / MinResistanceInv.
MinResistanceInv == 5

\* max(0.2, 1.0 - slope_mag / max_slope) if max_slope else 1.0, as <<num, den>>.
Resistance(slope_mag, max_slope) ==
    IF max_slope = 0 THEN <<1, 1>>
    ELSE LET den == Abs(max_slope)
             num == IF max_slope > 0 THEN max_slope - slope_mag ELSE slope_mag - max_slope
         IN  IF MinResistanceInv * num >= den THEN <<num, den>> ELSE <<1, MinResistanceInv>>

\* abs(curvature_mean) < 0.1 is below FlatCurvature; the alignment is then
\* AlignBoost times stronger.
FlatCurvature == 1

AlignBoost == 4

\* The fixed-point denominator of the vector away.
AwayScale == 12

\* The loop over self.neighbors with the vector created from self to other.
RECURSIVE AwaySum_Toward(_, _, _, _)
AwaySum_Toward(objs, position, neighbors, i) ==
    IF i > Len(neighbors) THEN Zero3
    ELSE LET other == neighbors[i][1]
             d2    == neighbors[i][2]
             vec   == VectorCreate(objs[other].position, position)
             rest  == AwaySum_Toward(objs, position, neighbors, i + 1)
         IN  IF Length2(vec) > 0
             THEN VectorAdd(VectorScaleBy(vec, AwayScale,
                                CeilSqrt(Length2(vec)) * Max(CeilSqrt(d2), 1)), rest)
             ELSE rest

\* The loop over self.neighbors in Agent.decide, from entry i: the sum of
\* unitize(self.position - other.position) * (1.0 / max(dist, 1e-6)).  A neighbor
\* at distance 0 has vec = 0 and is skipped, so 1e-6 is never the divisor.
RECURSIVE AwaySum(_, _, _, _)
AwaySum(objs, position, neighbors, i) ==
    IF i > Len(neighbors) THEN Zero3
    ELSE LET other == neighbors[i][1]
             d2    == neighbors[i][2]
             vec   == VectorCreate(position, objs[other].position)
             rest  == AwaySum(objs, position, neighbors, i + 1)
         IN  IF Length2(vec) > 0
             THEN VectorAdd(VectorScaleBy(vec, AwayScale,
                                CeilSqrt(Length2(vec)) * Max(CeilSqrt(d2), 1)), rest)
             ELSE rest

\* speed > max_speed
SpeedExceeds(velocity, max_speed) ==
    max_speed < 0 \/ Length2(velocity) > max_speed * max_speed

\* rs.VectorLength(self.velocity) < 1e-4
Stalled(velocity) == Length2(velocity) = 0

\* "clamp speed" of Agent.decide
ClampSpeed(velocity, max_speed) ==
    IF SpeedExceeds(velocity, max_speed) THEN UnitizeScale(velocity, max_speed)
    ELSE velocity

\* "slope resistance" of Agent.decide: the velocity scaled by the resistance.
SlopeResisted(a, max_slope) ==
    VectorScaleBy(a.velocity, Resistance(a.slope_magnitude, max_slope)[1],
                  Resistance(a.slope_magnitude, max_slope)[2])

\* "curvature alignment" of Agent.decide: the vector added to the velocity.
Alignment(a, alignment_weight) ==
    IF Length2(a.curvature_dir) > 0
    THEN UnitizeScale(a.curvature_dir,
             alignment_weight *
                 (IF Abs(a.curvature_mean) < FlatCurvature THEN AlignBoost ELSE 1))
    ELSE Zero3

\* The vector away of the given length, or nothing when it is zero.
SeparationOf(away, separation_weight) ==
    IF Length2(away) > 0 THEN UnitizeScale(away, separation_weight) ELSE Zero3

\* "separation" without its two guards: a zero sum counts as the x direction.
Separation_Unguarded(objs, a, separation_weight) ==
    IF Length2(AwaySum(objs, a.position, a.neighbors, 1)) > 0
    THEN UnitizeScale(AwaySum(objs, a.position, a.neighbors, 1), separation_weight)
    ELSE <<separation_weight, 0, 0>>

\* "separation" of Agent.decide: the vector added to the velocity.
Separation(objs, a, separation_weight) ==
    IF Len(a.neighbors) > 0
    THEN SeparationOf(AwaySum(objs, a.position, a.neighbors, 1), separation_weight)
    ELSE Zero3

\* The velocity of Agent.decide before "clamp speed".
Steered(objs, a, P) ==
    VectorAdd(VectorAdd(SlopeResisted(a, P.max_slope), Alignment(a, P.alignment_weight)),
              Separation(objs, a, P.separation_weight))

\* "jitter if stuck" of Agent.decide, for the clamped velocity v4.
Jittered(run, id, v4, jitter) ==
    IF Stalled(v4)
    THEN [run EXCEPT !.objs[id].velocity =
                         VectorAdd(v4, <<Uniform(-jitter, jitter, RngValue(RngNext(run.rng))),
                                         Uniform(-jitter, jitter,
                                                 RngValue(RngNext(RngNext(run.rng)))), 0>>),
                     !.rng = RngNext(RngNext(run.rng))]
    ELSE [run EXCEPT !.objs[id].velocity = v4]

\* Agent.decide(max_speed, max_slope, alignment_weight, separation_weight, jitter)
Decide(run, id, P) ==
    IF ~run.objs[id].is_alive THEN run
    ELSE Jittered(run, id, ClampSpeed(Steered(run.objs, run.objs[id], P), P.max_speed),
                  P.jitter)

\* Agent.move recording the position only when the re-projection succeeded.
Move_AppendIfProjected(run, id, surface) ==
    LET a       == run.objs[id]
        new_pos == VectorAdd(a.position, a.velocity)
        uv      == IF surface # None THEN SurfaceClosestPoint(surface, new_pos) ELSE None
    IN  IF ~a.is_alive THEN run
        ELSE IF uv # None
        THEN [run EXCEPT !.objs[id].position = EvaluateSurface(surface, uv[1], uv[2]),
                         !.objs[id].path =
                             Append(a.path, EvaluateSurface(surface, uv[1], uv[2]))]
        ELSE [run EXCEPT !.objs[id].position = new_pos]

\* Agent.move(surface)
Move(run, id, surface) ==
    LET a       == run.objs[id]
        new_pos == VectorAdd(a.position, a.velocity)
        uv      == IF surface # None THEN SurfaceClosestPoint(surface, new_pos) ELSE None
        position == IF uv # None THEN EvaluateSurface(surface, uv[1], uv[2]) ELSE new_pos
    IN  IF ~a.is_alive THEN run
        ELSE [run EXCEPT !.objs[id].position = position,
                         !.objs[id].path = Append(a.path, position)]

\* The offset of spawn_agent_near (0.2) and the largest initial velocity
\* component (0.05).
SpawnOffset == 4

InitVel == 1

\* The position spawn_agent_near gives the child of an agent at position, for the
\* drawn jitter: re-projected when the projection succeeds.
SpawnPosition(surface, position, jitter) ==
    LET new_pos == VectorAdd(position, jitter)
        uv      == SurfaceClosestPoint(surface, new_pos)
    IN  IF uv # None THEN EvaluateSurface(surface, uv[1], uv[2]) ELSE new_pos

\* spawn_agent_near constructing the child where the parent stands and moving it
\* to its place.
spawn_agent_near_FromParent(run, id, surface) ==
    LET s1 == RngNext(run.rng)
        s2 == RngNext(s1)
        s3 == RngNext(s2)
        s4 == RngNext(s3)
        jitter == <<Uniform(-SpawnOffset, SpawnOffset, RngValue(s1)),
                    Uniform(-SpawnOffset, SpawnOffset, RngValue(s2)), 0>>
        born   == NewAgent(run.objs[id].position,
                           <<Uniform(-InitVel, InitVel, RngValue(s3)),
                             Uniform(-InitVel, InitVel, RngValue(s4)), 0>>)
        child  == [born EXCEPT
                      !.position = SpawnPosition(surface, run.objs[id].position, jitter),
                      !.path = Append(@, SpawnPosition(surface, run.objs[id].position,
                                                       jitter))]
    IN  IF surface = None
        THEN [run |-> [run EXCEPT !.rng = s2], spawned |-> None]
        ELSE [run |-> [run EXCEPT !.objs = Append(run.objs, child), !.rng = s4],
              spawned |-> <<Len(run.objs) + 1>>]

\* spawn_agent_near(agent, surface): the run with the child among its objects, and
\* the child (None when the construction raised).
spawn_agent_near(run, id, surface) ==
    LET s1 == RngNext(run.rng)
        s2 == RngNext(s1)
        s3 == RngNext(s2)
        s4 == RngNext(s3)
        jitter == <<Uniform(-SpawnOffset, SpawnOffset, RngValue(s1)),
                    Uniform(-SpawnOffset, SpawnOffset, RngValue(s2)), 0>>
        child  == NewAgent(SpawnPosition(surface, run.objs[id].position, jitter),
                           <<Uniform(-InitVel, InitVel, RngValue(s3)),
                             Uniform(-InitVel, InitVel, RngValue(s4)), 0>>)
    IN  IF surface = None
        THEN [run |-> [run EXCEPT !.rng = s2], spawned |-> None]
        ELSE [run |-> [run EXCEPT !.objs = Append(run.objs, child), !.rng = s4],
              spawned |-> <<Len(run.objs) + 1>>]

\* The curvature boost of the spawn probability.
SpawnBoost == 3

\* The death rules with the age compared by >=.
Dies_AtMaxAge(a, P) == a.age >= P.max_age \/ a.slope_magnitude > P.slope_kill

\* The death rules without the age rule.
Dies_OfSlopeOnly(a, P) == a.slope_magnitude > P.slope_kill

\* "death rules" of Agent.update
Dies(a, P) == a.age > P.max_age \/ a.slope_magnitude > P.slope_kill

\* The spawn rules with the neighbor count compared by >=.
SpawnProb_AtMaxNeighbors(a, P) ==
    IF Len(a.neighbors) >= P.max_neighbors THEN 0
    ELSE IF Abs(a.curvature_mean) > P.curvature_spawn THEN P.spawn_chance * SpawnBoost
    ELSE P.spawn_chance

\* The spawn rules without the crowding rule.
SpawnProb_Uncrowded(a, P) ==
    IF Abs(a.curvature_mean) > P.curvature_spawn THEN P.spawn_chance * SpawnBoost
    ELSE P.spawn_chance

\* "spawn rules" of Agent.update: the probability the draw is compared with.
SpawnProb(a, P) ==
    IF Len(a.neighbors) > P.max_neighbors THEN 0
    ELSE IF Abs(a.curvature_mean) > P.curvature_spawn THEN P.spawn_chance * SpawnBoost
    ELSE P.spawn_chance

\* Agent.update after "self.age += 1": the death rules, then the spawn rules.
\* aged is the run with the agent sensed, moved and aged, drawn the run after the
\* draw of random.random().
SpawnRules(drawn, id, surface, P) ==
    IF RngValue(drawn.rng) < SpawnProb(drawn.objs[id], P)
    THEN spawn_agent_near(drawn, id, surface)
    ELSE [run |-> drawn, spawned |-> None]

Lifecycle(aged, id, surface, P) ==
    IF Dies(aged.objs[id], P)
    THEN [run |-> [aged EXCEPT !.objs[id].is_alive = FALSE], spawned |-> None]
    ELSE SpawnRules([aged EXCEPT !.rng = RngNext(@)], id, surface, P)

\* The age incremented only while the agent stands on the surface.
Aged_OnSurfaceOnly(run, id) ==
    IF run.objs[id].uv # None THEN [run EXCEPT !.objs[id].age = @ + 1] ELSE run

\* self.age += 1
Aged(run, id) == [run EXCEPT !.objs[id].age = @ + 1]

\* Agent.update without its early return for a dead agent.
Update_DeadNotSkipped(run, id, agents, surface, P) ==
    Lifecycle(Aged(Move(Decide(Sense(run, id, agents, surface, P.vision_radius),
                               id, P), id, surface), id),
              id, surface, P)

\* Agent.update(agents, surface, ...): the run after it and the agent it returns.
Update(run, id, agents, surface, P) ==
    IF ~run.objs[id].is_alive THEN [run |-> run, spawned |-> None]
    ELSE Lifecycle(Aged(Move(Decide(Sense(run, id, agents, surface, P.vision_radius),
                                    id, P), id, surface), id),
                   id, surface, P)

\* ------------------------------------------------------------- factory

\* generate_random_point_on_surface(surface): the run after its two draws, and the
\* point (None when the evaluation gave none).
generate_random_point_on_surface(run, surface) ==
    LET s1 == RngNext(run.rng)
        s2 == RngNext(s1)
        u  == Uniform(0, G, RngValue(s1))
        v  == Uniform(0, G, RngValue(s2))
    IN  IF surface = None THEN [run |-> run, pt |-> None]
        ELSE [run |-> [run EXCEPT !.rng = s2], pt |-> EvaluateSurface(surface, u, v)]

\* The loop of build_agents giving up at the first sample that failed.
RECURSIVE BuildFrom_StopAtFailure(_, _, _, _)
BuildFrom_StopAtFailure(run, k, surface, agents) ==
    IF k = 0 THEN [run EXCEPT !.agents = agents, !.has_agents = TRUE]
    ELSE LET g  == generate_random_point_on_surface(run, surface)
             s1 == RngNext(g.run.rng)
             s2 == RngNext(s1)
             a  == NewAgent(g.pt, <<Uniform(-InitVel, InitVel, RngValue(s1)),
                                    Uniform(-InitVel, InitVel, RngValue(s2)), 0>>)
         IN  IF g.pt # None
             THEN BuildFrom_StopAtFailure([g.run EXCEPT !.objs = Append(@, a), !.rng = s2],
                            k - 1, surface, Append(agents, Len(g.run.objs) + 1))
             ELSE [g.run EXCEPT !.agents = agents, !.has_agents = TRUE]

\* The loop of build_agents with k draws left; agents is the list built so far.
RECURSIVE BuildFrom(_, _, _, _)
BuildFrom(run, k, surface, agents) ==
    IF k = 0 THEN [run EXCEPT !.agents = agents, !.has_agents = TRUE]
    ELSE LET g  == generate_random_point_on_surface(run, surface)
             s1 == RngNext(g.run.rng)
             s2 == RngNext(s1)
             a  == NewAgent(g.pt, <<Uniform(-InitVel, InitVel, RngValue(s1)),
                                    Uniform(-InitVel, InitVel, RngValue(s2)), 0>>)
         IN  IF g.pt # None
             THEN BuildFrom([g.run EXCEPT !.objs = Append(@, a), !.rng = s2],
                            k - 1, surface, Append(agents, Len(g.run.objs) + 1))
             ELSE BuildFrom(g.run, k - 1, surface, agents)

\* self.agents = build_agents(num_agents, start_surface)
build_agents(run, num_agents, start_surface) ==
    IF start_surface = None \/ ~IsSurface(start_surface)
    THEN [run EXCEPT !.agents = <<>>, !.has_agents = TRUE]
    ELSE BuildFrom(run, num_agents, start_surface, <<>>)

\* ------------------------------------------------------------- the two drivers

\* The arguments of Agent.update.  RunScript forwards its six inputs and leaves
\* max_age .. max_neighbors at the defaults of Agent.update; the script passes
\* none.  The model draws all eleven from cfg: they stand for the values a caller
\* gives Agent.update, scaled so that the thresholds are crossed within MaxSteps.
Params(c) ==
    [vision_radius |-> c.vision_radius, max_speed |-> c.max_speed,
     max_slope |-> c.max_slope, alignment_weight |-> c.alignment_weight,
     separation_weight |-> c.separation_weight, jitter |-> c.jitter,
     max_age |-> c.max_age, slope_kill |-> c.slope_kill,
     curvature_spawn |-> c.curvature_spawn, spawn_chance |-> c.spawn_chance,
     max_neighbors |-> c.max_neighbors]

\* RunScript up to its loop: seed, then build when reset or nothing is built.
RunScriptEnter(run, c, reset) ==
    LET seeded == seed_everything(run, c.seed)
    IN  IF reset \/ ~seeded.has_agents
        THEN build_agents(seeded, c.N, c.surface)
        ELSE seeded

\* The loop of RunScript from list entry i: the run, active_agents, new_agents.
\* RunScriptCollect is the loop body after the call u of agent.update.
RECURSIVE RunScriptLoop(_, _, _, _, _, _)
RECURSIVE RunScriptCollect(_, _, _, _, _, _)
\* The loop body appending the returned child to new_agents twice.
RunScriptCollect_Twice(u, c, agents, i, active_agents, new_agents) ==
    RunScriptLoop(u.run, c, agents, i + 1,
        IF u.run.objs[agents[i]].is_alive
        THEN Append(active_agents, agents[i]) ELSE active_agents,
        new_agents \o u.spawned \o u.spawned)

RunScriptCollect(u, c, agents, i, active_agents, new_agents) ==
    RunScriptLoop(u.run, c, agents, i + 1,
        IF u.run.objs[agents[i]].is_alive
        THEN Append(active_agents, agents[i]) ELSE active_agents,
        new_agents \o u.spawned)

RunScriptLoop(run, c, agents, i, active_agents, new_agents) ==
    IF i > Len(agents)
    THEN [run |-> run, active_agents |-> active_agents, new_agents |-> new_agents]
    ELSE RunScriptCollect(Update(run, agents[i], agents, c.surface, Params(c)),
                          c, agents, i, active_agents, new_agents)

\* self.agents = active_agents + new_agents
RunScriptMerge(l) == [l.run EXCEPT !.agents = l.active_agents \o l.new_agents]

\* MyComponent.RunScript, from its loop on.
RunScriptPass(entered, c) ==
    RunScriptMerge(RunScriptLoop(entered, c, entered.agents, 1, <<>>, <<>>))

\* The list the agent_simulator script reads from the upstream component.
SimulatorAgents(run) == IF run.has_agents THEN run.agents ELSE <<>>

\* The loop of the agent_simulator script from list entry i; SimulatorCollect is
\* the loop body after the call u of agent.update.
RECURSIVE SimulatorLoop(_, _, _, _, _)
RECURSIVE SimulatorCollect(_, _, _, _, _)
SimulatorCollect(u, c, agents, i, new_agents) ==
    SimulatorLoop(u.run, c, agents, i + 1, new_agents \o u.spawned)

SimulatorLoop(run, c, agents, i, new_agents) ==
    IF i > Len(agents) THEN [run |-> run, new_agents |-> new_agents]
    ELSE SimulatorCollect(Update(run, agents[i], agents, c.surface, Params(c)),
                          c, agents, i, new_agents)

\* agents = agents + new_agents, the script's output out_agents
SimulatorMerge(l, agents) == [l.run EXCEPT !.out_agents = agents \o l.new_agents]

\* The agent_simulator script: its step and its output.
SimulatorPass(run, c) ==
    SimulatorMerge(SimulatorLoop(run, c, SimulatorAgents(run), 1, <<>>),
                   SimulatorAgents(run))

\* ------------------------------------------------------------- inputs

\* The inputs of a run: seed, N, start_surface and the parameters of Agent.update.
BaseConfig ==
    [seed |-> <<1>>, N |-> 2, surface |-> Ridge, vision_radius |-> <<2>>,
     max_speed |-> 2, max_slope |-> 2, alignment_weight |-> 1,
     separation_weight |-> 1, jitter |-> 1, max_age |-> 2, slope_kill |-> 2,
     curvature_spawn |-> 0, spawn_chance |-> 1, max_neighbors |-> 6]

\* Other values of single inputs.
Choices ==
    {<<"seed", None>>, <<"seed", <<2>>>>, <<"N", 1>>, <<"N", 3>>,
     <<"surface", Flat>>, <<"surface", None>>, <<"surface", Torn>>,
     <<"surface", NotSurface>>,
     <<"vision_radius", None>>, <<"vision_radius", <<0>>>>, <<"vision_radius", <<1>>>>,
     <<"max_speed", 0>>, <<"max_speed", 1>>, <<"max_slope", 0>>, <<"max_slope", -2>>,
     <<"alignment_weight", 0>>, <<"separation_weight", 0>>, <<"jitter", 0>>,
     <<"max_age", 0>>, <<"max_age", 1>>, <<"slope_kill", 0>>, <<"slope_kill", 5>>,
     <<"curvature_spawn", 1>>, <<"spawn_chance", 0>>, <<"spawn_chance", RandRes>>,
     <<"max_neighbors", 0>>, <<"max_neighbors", 1>>}

\* Inputs with which every draw spawns and the neighbor count is at the limit of
\* the crowding rule, with at most one more input changed.
CrowdedConfigs ==
    {[[BaseConfig EXCEPT !.spawn_chance = RandRes, !.max_neighbors = m]
         EXCEPT ![x[1]] = x[2]] :
        m \in {0, 1}, x \in {c \in Choices : c[1] \notin {"spawn_chance", "max_neighbors"}}}

\* The base inputs with at most two of them changed, and the crowded inputs.
Configs ==
    {BaseConfig} \cup CrowdedConfigs \cup
    {[[BaseConfig EXCEPT ![x[1]] = x[2]] EXCEPT ![y[1]] = y[2]] : x \in Choices, y \in Choices}

\* The states the generator may be in when a run begins in a process that has
\* already used it.
PriorRngStates == {SeedState(ModuleSeed), 5}

\* A run before its first step: no object, self.agents not set.  prior keeps the
\* state the generator had then (a history field, never read by the program).
FreshRun(rng) ==
    [objs |-> <<>>, agents |-> <<>>, has_agents |-> FALSE, rng |-> rng,
     out_agents |-> <<>>, prior |-> rng]

\* ------------------------------------------------------------- specification

Init ==
    /\ cfg \in Configs
    /\ runs \in {[r \in Runs |-> FreshRun(IF r = 1 THEN SeedState(ModuleSeed) ELSE s)] :
                    s \in PriorRngStates}
    /\ pre = runs
    /\ last = [driver |-> "none", reset |-> FALSE]
    /\ steps = 0

\* One call of MyComponent.RunScript in each run.
RunScript(reset) ==
    /\ steps < MaxSteps
    /\ pre' = [r \in Runs |-> RunScriptEnter(runs[r], cfg, reset)]
    /\ \A r \in Runs : Len(pre'[r].agents) <= MaxPop
    /\ runs' = [r \in Runs |-> RunScriptPass(pre'[r], cfg)]
    /\ last' = [driver |-> "RunScript", reset |-> reset]
    /\ steps' = steps + 1
    /\ UNCHANGED cfg

\* One execution of the agent_simulator script in each run.
Simulator ==
    /\ steps < MaxSteps
    /\ \A r \in Runs : Len(SimulatorAgents(runs[r])) <= MaxPop
    /\ runs' = [r \in Runs |-> SimulatorPass(runs[r], cfg)]
    /\ pre' = runs
    /\ last' = [driver |-> "Simulator", reset |-> FALSE]
    /\ steps' = steps + 1
    /\ UNCHANGED cfg

Next ==
    \/ \E reset \in BOOLEAN : RunScript(reset)
    \/ Simulator

Spec == Init /\ [][Next]_vars

\* ------------------------------------------------------------- the last pass

Range(seq) == {seq[i] : i \in 1..Len(seq)}

\* The list the last pass iterated in run r.
Listed(r) ==
    IF last.driver = "RunScript" THEN pre[r].agents
    ELSE IF last.driver = "Simulator" THEN SimulatorAgents(pre[r])
    ELSE <<>>

\* The agents the last pass updated: those of the list alive when it began.
Updated(r) == {id \in Range(Listed(r)) : pre[r].objs[id].is_alive}

\* The agents that came out of the last pass alive, in list order.
Survivors(r) == SelectSeq(Listed(r), LAMBDA id : runs[r].objs[id].is_alive)

\* The agents constructed during the last pass, in construction order.
Children(r) == [i \in 1..(Len(runs[r].objs) - Len(pre[r].objs)) |-> Len(pre[r].objs) + i]

\* The place of agent id in the list (0 if absent).
IndexOf(r, id) ==
    IF id \in Range(Listed(r))
    THEN CHOOSE i \in 1..Len(Listed(r)) : Listed(r)[i] = id
    ELSE 0

\* Agent other as agent id saw it when id sensed: updated already if it comes
\* earlier in the list, as at the beginning of the pass otherwise.
SeenBy(r, id, other) ==
    IF IndexOf(r, other) < IndexOf(r, id) THEN runs[r].objs[other] ELSE pre[r].objs[other]

NeighborIds(a) == {a.neighbors[i][1] : i \in 1..Len(a.neighbors)}

\* ------------------------------------------------------------- claims

\* C1: in every step every agent's neighbor list (members and distances) is the
\* one computed from the positions all agents had when the step began.
C1_SnapshotSensing ==
    \A r \in Runs : \A id \in Updated(r) :
        cfg.vision_radius # None =>
            runs[r].objs[id].neighbors =
                SenseNeighbors(pre[r].objs, id, Listed(r), cfg.vision_radius)

\* C2: every agent's path is non-empty and ends at its position, and an agent
\* alive when a step began has a path one longer when the step is over, whether
\* the re-projection of the move succeeded or not.
C2_PathTracksPosition ==
    \A r \in Runs : \A id \in 1..Len(runs[r].objs) :
        LET a == runs[r].objs[id] IN
        /\ Len(a.path) >= 1
        /\ a.path[Len(a.path)] = a.position
        /\ id \in Updated(r) => Len(a.path) = Len(pre[r].objs[id].path) + 1

\* A step moved one agent off the surface (its re-projection failed) and another
\* onto it.
C2_Witness ==
    \E r \in Runs : \E id, other \in Updated(r) :
        /\ get_uv(cfg.surface, runs[r].objs[id].position) = None
        /\ get_uv(cfg.surface, runs[r].objs[other].position) # None
        /\ Len(runs[r].objs[id].path) >= 2

\* C3: after Agent.decide the speed of every agent is at most max_speed.
C3_SpeedBounded ==
    \A r \in Runs : \A id \in Updated(r) :
        Length2(runs[r].objs[id].velocity) <= cfg.max_speed * cfg.max_speed

\* C4: an agent that died in an earlier step is in no neighbor list built in a
\* later step, whichever driver runs the step.
C4_DeadNeverSensed ==
    \A r \in Runs : \A id \in Updated(r) :
        \A other \in NeighborIds(runs[r].objs[id]) : pre[r].objs[other].is_alive

\* C5: an agent alive when a step began is dead after it if and only if its age
\* after the increment exceeds max_age or its slope magnitude exceeds slope_kill.
C5_DeathRule ==
    \A r \in Runs : \A id \in Updated(r) :
        LET a == runs[r].objs[id] IN
        (~a.is_alive) <=> (a.age > cfg.max_age \/ a.slope_magnitude > cfg.slope_kill)

\* One step in which an agent died of slope in its first update although its age
\* is within max_age, another died of age alone, and a third survived.
C5_Witness ==
    \E r \in Runs : \E x, y, z \in Updated(r) :
        /\ ~runs[r].objs[x].is_alive /\ runs[r].objs[x].age = 1
        /\ runs[r].objs[x].age <= cfg.max_age
        /\ ~runs[r].objs[y].is_alive
        /\ runs[r].objs[y].slope_magnitude <= cfg.slope_kill
        /\ runs[r].objs[z].is_alive

\* The agents of a run's population, in order, each as <<position, velocity>>.
Outcome(run) ==
    [i \in 1..Len(run.agents) |->
        <<run.objs[run.agents[i]].position, run.objs[run.agents[i]].velocity>>]

\* C6 as stated: two runs with the same seed, initial count, surface, parameters
\* and steps have the same positions, velocities and population size.
C6_Determinism == Outcome(runs[1]) = Outcome(runs[2])

\* C6 as amended: the same holds when the seed is an integer (not None).
C6_SeededDeterminism == cfg.seed # None => Outcome(runs[1]) = Outcome(runs[2])

\* Two runs with the same integer seed that began with the generator in different
\* states, after two steps or more that left a population with a spawned child.
C6_Witness ==
    /\ cfg.seed # None
    /\ runs[1].prior # runs[2].prior
    /\ steps >= 2
    /\ Len(runs[1].agents) >= 2
    /\ \E i \in 1..Len(runs[1].agents) : runs[1].agents[i] \in Range(Children(1))

\* C7: with vision_radius = 0 every sensed neighbor list is empty.
C7_NoNeighborsAtZeroRadius ==
    cfg.vision_radius = <<0>> =>
        \A r \in Runs : \A id \in Updated(r) : runs[r].objs[id].neighbors = <<>>

\* C8: a sensed neighbor list holds exactly the other agents of the list that are
\* alive when the agent senses and within vision_radius of it.
C8_NeighborsAliveInRadius ==
    cfg.vision_radius # None =>
        \A r \in Runs : \A id \in Updated(r) :
            NeighborIds(runs[r].objs[id]) =
                {other \in Range(Listed(r)) \ {id} :
                    /\ SeenBy(r, id, other).is_alive
                    /\ WithinRadius(Distance2(pre[r].objs[id].position,
                                              SeenBy(r, id, other).position),
                                    cfg.vision_radius[1])}

\* The child was constructed by spawn_agent_near from the parent where it stands.
BornOf(surface, child, parent) ==
    \E jx, jy \in (-SpawnOffset)..SpawnOffset :
        child.path[1] = SpawnPosition(surface, parent.position, <<jx, jy, 0>>)

\* The hypotheses of C9: spawn_chance 1.0, curvature_spawn 0, a surface to
\* construct children on, and no neighbor count above max_neighbors.
C9_Hypotheses(r) ==
    /\ last.driver = "RunScript"
    /\ cfg.spawn_chance >= RandRes
    /\ cfg.curvature_spawn = 0
    /\ cfg.surface # None
    /\ \A id \in Updated(r) : Len(runs[r].objs[id].neighbors) <= cfg.max_neighbors

\* C9: under these hypotheses a RunScript step constructs exactly one child per
\* survivor, the i-th child next to the i-th survivor, none for an agent that
\* died, and leaves a population of twice the survivors.
C9_FullSpawn ==
    \A r \in Runs : C9_Hypotheses(r) =>
        /\ Len(Children(r)) = Len(Survivors(r))
        /\ \A i \in 1..Len(Children(r)) :
               BornOf(cfg.surface, runs[r].objs[Children(r)[i]],
                      runs[r].objs[Survivors(r)[i]])
        /\ Len(runs[r].agents) = 2 * Len(Survivors(r))

\* Such a step with two survivors and an agent that died in it.
C9_Witness ==
    \E r \in Runs :
        /\ C9_Hypotheses(r)
        /\ Len(Survivors(r)) >= 2
        /\ \E id \in Updated(r) : ~runs[r].objs[id].is_alive

\* C10: after a step of either driver the population the next step iterates is
\* the survivors in their order followed by the children in parent order.
C10_PopulationMerge ==
    last.driver # "none" =>
        \A r \in Runs : SimulatorAgents(runs[r]) = Survivors(r) \o Children(r)

\* C11: the generator is seeded at simulation start only: a step that builds no
\* population begins with the generator in the state the previous step left it in.
C11_SeededOnce ==
    [][\A r \in Runs :
          (steps >= 1 /\ runs[r].has_agents /\ ~last'.reset) =>
              pre'[r].rng = runs[r].rng]_vars

\* The agents the last pass called update on although they were dead already.
DeadListed(r) == {id \in Range(Listed(r)) : ~pre[r].objs[id].is_alive}

\* C12: a dead agent stays dead and keeps its position, velocity, age and path
\* through every later step, and a pass constructs no more children than it
\* has agents that were alive before it and after it.
C12_DeadIsTerminal ==
    [][\A r \in Runs :
          /\ \A id \in 1..Len(runs[r].objs) :
                 ~runs[r].objs[id].is_alive =>
                     /\ ~runs'[r].objs[id].is_alive
                     /\ runs'[r].objs[id].position = runs[r].objs[id].position
                     /\ runs'[r].objs[id].velocity = runs[r].objs[id].velocity
                     /\ runs'[r].objs[id].age = runs[r].objs[id].age
                     /\ runs'[r].objs[id].path = runs[r].objs[id].path
          /\ Len(Children(r)') <=
                 Cardinality({id \in Updated(r)' : runs'[r].objs[id].is_alive})]_vars

\* A pass called update on an agent that had died of slope within max_age, with
\* inputs that make every draw spawn, and on a living agent as well.
C12_Witness ==
    \E r \in Runs :
        /\ cfg.spawn_chance >= RandRes
        /\ cfg.surface # None
        /\ Updated(r) # {}
        /\ \E id \in DeadListed(r) : runs[r].objs[id].age < cfg.max_age

\* The objects as agent id saw them when it sensed and decided in the last pass.
ViewOf(r, id) == [other \in 1..Len(pre[r].objs) |-> SeenBy(r, id, other)]

\* Agent id as it entered Agent.decide in the last pass: where it stood when the
\* pass began, with what it sensed.
Sensed(r, id) ==
    [pre[r].objs[id] EXCEPT !.uv = runs[r].objs[id].uv,
                            !.curvature_mean = runs[r].objs[id].curvature_mean,
                            !.curvature_dir = runs[r].objs[id].curvature_dir,
                            !.slope_vector = runs[r].objs[id].slope_vector,
                            !.slope_magnitude = runs[r].objs[id].slope_magnitude,
                            !.neighbors = runs[r].objs[id].neighbors]

\* The sum over the neighbors, from entry i, of
\* normalize(sign * (other.position - position)) / max(distance, 1e-6).
RECURSIVE DirectedSum(_, _, _, _, _)
DirectedSum(objs, position, neighbors, i, sign) ==
    IF i > Len(neighbors) THEN Zero3
    ELSE LET diff == VectorCreate(objs[neighbors[i][1]].position, position)
             unit == VectorScaleBy(<<sign * diff[1], sign * diff[2], sign * diff[3]>>,
                         AwayScale,
                         Max(CeilSqrt(Length2(diff)), 1) * Max(CeilSqrt(neighbors[i][2]), 1))
         IN  VectorAdd(unit, DirectedSum(objs, position, neighbors, i + 1, sign))

\* separation_weight times the unit vector of a sum (nothing for a zero sum).
WeightedUnit(sum, weight) ==
    IF sum = Zero3 THEN Zero3 ELSE VectorScaleBy(sum, weight, CeilSqrt(Length2(sum)))

Dot(a, b) == a[1] * b[1] + a[2] * b[2] + a[3] * b[3]

\* C13 as stated: with neighbors, the vector stage 3 of Agent.decide adds is
\* separation_weight times the unit vector of the sum of
\* normalize(other.position - position) / distance: it points toward the neighbors.
C13_TowardNeighbors ==
    \A r \in Runs : \A id \in Updated(r) :
        Len(runs[r].objs[id].neighbors) > 0 =>
            Separation(ViewOf(r, id), Sensed(r, id), cfg.separation_weight) =
                WeightedUnit(DirectedSum(ViewOf(r, id), pre[r].objs[id].position,
                                         runs[r].objs[id].neighbors, 1, 1),
                             cfg.separation_weight)

\* C13 as amended: the vector is separation_weight times the unit vector of the
\* sum of normalize(position - other.position) / distance, and it never points
\* toward the neighbors: it points away from them.
C13_AwayFromNeighbors ==
    \A r \in Runs : \A id \in Updated(r) :
        Len(runs[r].objs[id].neighbors) > 0 =>
            /\ Separation(ViewOf(r, id), Sensed(r, id), cfg.separation_weight) =
                   WeightedUnit(DirectedSum(ViewOf(r, id), pre[r].objs[id].position,
                                            runs[r].objs[id].neighbors, 1, -1),
                                cfg.separation_weight)
            /\ Dot(Separation(ViewOf(r, id), Sensed(r, id), cfg.separation_weight),
                   DirectedSum(ViewOf(r, id), pre[r].objs[id].position,
                               runs[r].objs[id].neighbors, 1, 1)) <= 0

\* An agent decided with two neighbors or more, one of them at its own position,
\* and stage 3 added a vector that is not zero.
C13_Witness ==
    \E r \in Runs : \E id \in Updated(r) :
        /\ Len(runs[r].objs[id].neighbors) >= 2
        /\ \E i \in 1..Len(runs[r].objs[id].neighbors) : runs[r].objs[id].neighbors[i][2] = 0
        /\ Separation(ViewOf(r, id), Sensed(r, id), cfg.separation_weight) # Zero3

\* C14: the slope resistance of Agent.decide is max(0.2, 1 - slope_magnitude /
\* max_slope) for max_slope > 0 and exactly 1 for every other max_slope, so it
\* lies in [0.2, 1].
C14_ResistanceFactor ==
    \A r \in Runs : \A id \in Updated(r) :
        LET s   == runs[r].objs[id].slope_magnitude
            m   == cfg.max_slope
            res == Resistance(s, m)
        IN  /\ m > 0 => IF MinResistanceInv * (m - s) >= m
                        THEN res[1] * m = (m - s) * res[2]
                        ELSE res[1] * MinResistanceInv = res[2]
            /\ m <= 0 => res[1] = res[2]
            /\ res[2] > 0
            /\ res[1] * MinResistanceInv >= res[2]
            /\ res[1] <= res[2]

\* The agents whose projection failed when they sensed in the last pass.
Unprojected(r) == {id \in Updated(r) : get_uv(cfg.surface, pre[r].objs[id].position) = None}

\* C15: when the projection of a sensing agent fails, its cached curvature and
\* slope keep their values, its neighbor list is rebuilt from the agents as they
\* are then, and decide, move and the lifecycle still run.
C15_SilentSensingFailure ==
    \A r \in Runs : \A id \in Unprojected(r) :
        /\ runs[r].objs[id].uv = None
        /\ runs[r].objs[id].curvature_mean = pre[r].objs[id].curvature_mean
        /\ runs[r].objs[id].curvature_dir = pre[r].objs[id].curvature_dir
        /\ runs[r].objs[id].slope_vector = pre[r].objs[id].slope_vector
        /\ runs[r].objs[id].slope_magnitude = pre[r].objs[id].slope_magnitude
        /\ runs[r].objs[id].neighbors =
               IF cfg.vision_radius = None THEN <<>>
               ELSE SenseNeighbors(ViewOf(r, id), id, Listed(r), cfg.vision_radius)
        /\ runs[r].objs[id].velocity \in
               {VectorAdd(ClampSpeed(Steered(ViewOf(r, id), Sensed(r, id), Params(cfg)),
                                     cfg.max_speed), <<jx, jy, 0>>) :
                    jx, jy \in (-Abs(cfg.jitter))..Abs(cfg.jitter)}
        /\ runs[r].objs[id].path =
               Append(pre[r].objs[id].path, runs[r].objs[id].position)
        /\ runs[r].objs[id].age = pre[r].objs[id].age + 1
        /\ runs[r].objs[id].is_alive = ~Dies(runs[r].objs[id], Params(cfg))

\* On a surface, the projection of an agent with a cached curvature failed and
\* its neighbor list is another than before the step.
C15_Witness ==
    \E r \in Runs : \E id \in Unprojected(r) :
        /\ cfg.surface # None
        /\ pre[r].objs[id].curvature_mean # 0
        /\ pre[r].objs[id].curvature_dir # Zero3
        /\ runs[r].objs[id].neighbors # pre[r].objs[id].neighbors

\* The agents that may have spawned in the last pass: updated, alive after it and
\* with no more than max_neighbors neighbors, in list order.
Eligible(r) ==
    SelectSeq(Listed(r), LAMBDA id :
        /\ id \in Updated(r)
        /\ runs[r].objs[id].is_alive
        /\ Len(runs[r].objs[id].neighbors) <= cfg.max_neighbors)

\* The children are born of agents of the list parents taken in order, from its
\* entry j on, each agent having one child at most.
RECURSIVE BornInOrder(_, _, _, _, _)
BornInOrder(surface, objs, children, parents, j) ==
    IF children = <<>> THEN TRUE
    ELSE IF j > Len(parents) THEN FALSE
    ELSE \/ /\ BornOf(surface, objs[Head(children)], objs[parents[j]])
            /\ BornInOrder(surface, objs, Tail(children), parents, j + 1)
         \/ BornInOrder(surface, objs, children, parents, j + 1)

\* C16: in a step every agent has one child at most, and none if it died in the
\* step or has more than max_neighbors neighbors, whatever spawn_chance is.
C16_SpawnGating ==
    \A r \in Runs :
        /\ Len(Children(r)) <= Len(Eligible(r))
        /\ Children(r) # <<>> =>
               BornInOrder(cfg.surface, runs[r].objs, Children(r), Eligible(r), 1)

\* With inputs that make every draw spawn, a step killed one agent, left another
\* alive with more than max_neighbors neighbors and a third with a child.
C16_Witness ==
    \E r \in Runs :
        /\ cfg.spawn_chance >= RandRes
        /\ Children(r) # <<>>
        /\ \E id \in Updated(r) : ~runs[r].objs[id].is_alive
        /\ \E id \in Updated(r) :
               /\ runs[r].objs[id].is_alive
               /\ Len(runs[r].objs[id].neighbors) > cfg.max_neighbors

\* The points of k samples of the surface drawn from generator state rng on, in
\* draw order, the failed samples left out; each agent built takes two draws more.
RECURSIVE SampledPoints(_, _, _)
SampledPoints(rng, k, surface) ==
    IF k = 0 THEN <<>>
    ELSE LET pt == EvaluateSurface(surface,
                       Uniform(0, G, RngValue(RngNext(rng))),
                       Uniform(0, G, RngValue(RngNext(RngNext(rng)))))
         IN  IF pt = None THEN SampledPoints(RngNext(RngNext(rng)), k - 1, surface)
             ELSE <<pt>> \o SampledPoints(RngNext(RngNext(RngNext(RngNext(rng)))),
                                          k - 1, surface)

\* The population built is built, as new objects in the order built, from the
\* successful ones of the samples.
BuiltFrom(objs, built, before, samples) ==
    /\ built = [i \in 1..Len(samples) |-> before + i]
    /\ Len(objs) = before + Len(samples)
    /\ \A i \in 1..Len(samples) :
           /\ objs[before + i].position = samples[i]
           /\ objs[before + i].age = 0
           /\ objs[before + i].is_alive
           /\ objs[before + i].path = <<samples[i]>>
           /\ objs[before + i].velocity[3] = 0
           /\ Abs(objs[before + i].velocity[1]) <= InitVel
           /\ Abs(objs[before + i].velocity[2]) <= InitVel

\* C17: build_agents returns, for N samples, one new agent per successful sample
\* in draw order (none for a missing or invalid surface), each with age 0, alive,
\* its path its position alone, and a velocity within the initial range with z = 0.
C17_BuildAgents ==
    [][\A r \in Runs :
          (last'.driver = "RunScript" /\ (last'.reset \/ ~runs[r].has_agents)) =>
              /\ pre'[r].has_agents
              /\ Len(pre'[r].agents) <= cfg.N
              /\ BuiltFrom(pre'[r].objs, pre'[r].agents, Len(runs[r].objs),
                           IF IsSurface(cfg.surface)
                           THEN SampledPoints(seed_everything(runs[r], cfg.seed).rng,
                                              cfg.N, cfg.surface)
                           ELSE <<>>)]_vars

\* A reset built fewer agents than N, but some, on a surface, in a run that held
\* objects already.
C17_Witness ==
    \E r \in Runs :
        /\ last.driver = "RunScript" /\ last.reset /\ steps >= 2
        /\ IsSurface(cfg.surface)
        /\ Len(pre[r].agents) > 0
        /\ Len(pre[r].agents) < cfg.N
        /\ pre[r].agents[1] > 1

\* C18: no agent's neighbor list holds the agent itself, also when another agent
\* stands at the same position.
C18_NoSelfNeighbor ==
    \A r \in Runs : \A id \in 1..Len(runs[r].objs) :
        id \notin NeighborIds(runs[r].objs[id])

\* An agent sensed, within its radius, another agent standing at its own position.
C18_Witness ==
    \E r \in Runs : \E id \in Updated(r) :
        \E i \in 1..Len(runs[r].objs[id].neighbors) :
            /\ runs[r].objs[id].neighbors[i][2] = 0
            /\ SeenBy(r, id, runs[r].objs[id].neighbors[i][1]).position =
                   pre[r].objs[id].position

\* The velocity is the clamped velocity v4, with jitter added if v4 is stalled.
DecidedFrom(velocity, v4, jitter) ==
    IF Stalled(v4)
    THEN \E jx, jy \in (-Abs(jitter))..Abs(jitter) : velocity = VectorAdd(v4, <<jx, jy, 0>>)
    ELSE velocity = v4

\* C19: for an agent that sensed no neighbor, the velocity entering the speed
\* clamp is the one slope resistance and curvature alignment produce, whatever
\* separation_weight is: the decided velocity is its clamp (and jitter).
C19_NoNeighborsNoInteraction ==
    \A r \in Runs : \A id \in Updated(r) :
        runs[r].objs[id].neighbors = <<>> =>
            /\ Steered(ViewOf(r, id), Sensed(r, id), Params(cfg)) =
                   VectorAdd(SlopeResisted(Sensed(r, id), cfg.max_slope),
                             Alignment(Sensed(r, id), cfg.alignment_weight))
            /\ DecidedFrom(runs[r].objs[id].velocity,
                           ClampSpeed(VectorAdd(SlopeResisted(Sensed(r, id), cfg.max_slope),
                                                Alignment(Sensed(r, id),
                                                          cfg.alignment_weight)),
                                      cfg.max_speed),
                           cfg.jitter)

\* With a separation weight and a vision radius, an agent with others in the
\* list sensed none of them and decided a velocity that is not zero.
C19_Witness ==
    \E r \in Runs : \E id \in Updated(r) :
        /\ cfg.separation_weight # 0
        /\ cfg.vision_radius # None
        /\ Len(Listed(r)) >= 2
        /\ runs[r].objs[id].neighbors = <<>>
        /\ runs[r].objs[id].velocity # Zero3

\* C20: every agent, alive or dead, built or spawned, has len(path) = age + 1.
C20_PathLengthIsAge ==
    \A r \in Runs : \A id \in 1..Len(runs[r].objs) :
        Len(runs[r].objs[id].path) = runs[r].objs[id].age + 1

\* In a run built with one agent at a time, a step updated a second agent of
\* the list, which is a spawned one, and moved it; the run holds a dead agent.
C20_Witness ==
    \E r \in Runs :
        /\ cfg.N = 1
        /\ Len(Listed(r)) >= 2
        /\ Listed(r)[2] \in Updated(r)
        /\ runs[r].objs[Listed(r)[2]].path[1] # runs[r].objs[Listed(r)[2]].position
        /\ \E id \in 1..Len(runs[r].objs) :
               ~runs[r].objs[id].is_alive /\ runs[r].objs[id].age >= 1

\* C21: an agent alive at the end of a step has age <= max_age; an update call
\* on a living agent adds one to its age, so no agent has more than max_age + 1
\* update calls of its own and after that many it is dead.
C21_BoundedLifetime ==
    \A r \in Runs : \A id \in 1..Len(runs[r].objs) :
        /\ runs[r].objs[id].is_alive => runs[r].objs[id].age <= cfg.max_age
        /\ runs[r].objs[id].age <= Max(cfg.max_age, 0) + 1
        /\ id \in Updated(r) => runs[r].objs[id].age = pre[r].objs[id].age + 1
        /\ runs[r].objs[id].age = Max(cfg.max_age, 0) + 1 => ~runs[r].objs[id].is_alive

\* A step took one agent to age max_age + 1 on a slope within slope_kill, so it
\* died of age alone after two updates or more, and left another alive at max_age.
C21_Witness ==
    \E r \in Runs : \E x, y \in Updated(r) :
        /\ cfg.max_age >= 1
        /\ runs[r].objs[x].age = cfg.max_age + 1
        /\ runs[r].objs[x].slope_magnitude <= cfg.slope_kill
        /\ ~runs[r].objs[x].is_alive
        /\ runs[r].objs[y].is_alive
        /\ runs[r].objs[y].age = cfg.max_age

\* A child as Agent.__init__ leaves it: never sensed, moved or aged.
Untouched(a) ==
    /\ a.age = 0
    /\ a.is_alive
    /\ a.path = <<a.position>>
    /\ a.uv = None
    /\ a.neighbors = <<>>

\* C22: a child constructed in a step is not in the list the step iterates nor
\* in any neighbor list built in it, and at the end of the step it is as
\* constructed (age 0, alive, its path its position alone); the children of a
\* RunScript step are in the population, and the next step, unless it resets,
\* updates each of them.
C22_ChildJoinsNextStep ==
    [][\A r \in Runs :
          /\ \A child \in Range(Children(r)') :
                 /\ Untouched(runs'[r].objs[child])
                 /\ child \notin Range(Listed(r)')
                 /\ \A id \in Updated(r)' : child \notin NeighborIds(runs'[r].objs[id])
                 /\ last'.driver = "RunScript" => child \in Range(runs'[r].agents)
          /\ (last.driver = "RunScript" /\ ~last'.reset) =>
                 \A child \in Range(Children(r)) :
                     /\ child \in Updated(r)'
                     /\ runs'[r].objs[child].age = 1
                     /\ Len(runs'[r].objs[child].path) = 2]_vars

\* A RunScript step updated a child of the step before, within the vision radius
\* of its parent, and constructed a child itself.
C22_Witness ==
    \E r \in Runs :
        /\ last.driver = "RunScript" /\ ~last.reset
        /\ cfg.vision_radius # None
        /\ Children(r) # <<>>
        /\ \E child \in Updated(r) :
               /\ runs[r].objs[child].age = 1
               /\ child > cfg.N
               /\ steps = 2
               /\ runs[r].objs[child].neighbors # <<>>

\* C23: the population after a step (and the list the agent_simulator script
\* puts out) is at most twice the population the step iterated, and the children
\* constructed in it are at most as many as the agents that survived it.
C23_GrowthBound ==
    \A r \in Runs :
        /\ Len(SimulatorAgents(runs[r])) <= 2 * Len(Listed(r))
        /\ last.driver = "Simulator" => Len(runs[r].out_agents) <= 2 * Len(Listed(r))
        /\ Len(Children(r)) <= Len(Survivors(r))
        /\ last.driver = "RunScript" =>
               Len(runs[r].agents) <= Len(Survivors(r)) + Len(Children(r))

\* A RunScript step after the first doubled a population of two or more.
C23_Witness ==
    /\ last.driver = "RunScript"
    /\ \E r \in Runs :
           /\ Len(Listed(r)) >= 2
           /\ Len(runs[r].agents) = 2 * Len(Listed(r))
    /\ steps >= 2

====
